---- MODULE Spec2Model ----
(***************************************************************************)
(* Model of the esbuild TypeScript plugin: the plugin closure (state of    *)
(* typescript()), its host hooks onStart / onLoad / onEnd / onDispose, the *)
(* write-output hook and status callback handed to the watch compiler, and *)
(* the output resolution of outputFile.ts.                                 *)
(*                                                                         *)
(* Execution model: JavaScript run-to-completion.  Every host hook call    *)
(* and every compiler callback is one macrotask; the continuation of the   *)
(* `await watchProgramHelper.wait()` in onLoad is a microtask, and all     *)
(* microtasks run before the next macrotask.                               *)
(*                                                                         *)
(* WatchProgramHelper (watchProgram.ts), TSCache (tscache.ts) and          *)
(* createFilter are not among the sources; they are modelled from the      *)
(* specification (WatchCoordinator, PersistentArtifactCache, inclusion     *)
(* predicate).                                                             *)
(***************************************************************************)
EXTENDS Naturals, Sequences, FiniteSets, TLC

\* ------------------------------------------------------------------ bounds
MaxLoads == 2
MaxPasses == 2
MaxEmits == 1
MaxDiags == 1

\* ------------------------------------------------------------------ paths
\* A path is a sequence of tokens; the separators and the dots are tokens.
PA == <<"d", "/", "a", ".", "ts">>
PB == <<"d", "\\", "b", ".", "mts">>
PX == <<"d", "/", "x", ".", "ts">>
Paths == {PA, PB, PX}


\* The value of an absent file name (undefined; the empty name is falsy too).
NoFile == <<>>
\* The value of an absent content (undefined); "" is a present, empty content.
Undefined == "undefined"
Contents == {"", "v1"}
\* The texts an input file can have.
Texts == {0, 1}

normalizePath(fileName) ==
  [i \in 1..Len(fileName) |-> IF fileName[i] = "\\" THEN "/" ELSE fileName[i]]

\* createFilter(include || '{,**/}*.(cts|mts|ts|tsx)', exclude): the default
\* include pattern, and an exclude pattern that rejects every file named x.
filter(path) ==
  LET p == normalizePath(path)
  IN /\ Len(p) >= 3
     /\ p[Len(p) - 1] = "."
     /\ p[Len(p)] \in {"cts", "mts", "ts", "tsx"}
     /\ ~\E i \in 1..Len(p) - 1 :
           /\ p[i] = "x" /\ p[i + 1] = "."
           /\ (i = 1 \/ p[i - 1] = "/")

\* The inputs the inclusion filter accepts, in normalized form.
Included == {normalizePath(p) : p \in {q \in Paths : filter(q)}}

includes(seq, x) == \E i \in 1..Len(seq) : seq[i] = x

endsWith(name, suffix) ==
  /\ Len(name) >= Len(suffix)
  /\ SubSeq(name, Len(name) - Len(suffix) + 1, Len(name)) = suffix

\* ------------------------------------------------------------------ outputFile.ts
isMapOutputFile(name) == endsWith(name, <<".", "map">>)

isDeclarationOutputFile(name) ==
  \E e \in {"ts", "cts", "mts"} : endsWith(name, <<".", "d", ".", e>>)

isCodeOutputFile(name) == ~isMapOutputFile(name) /\ ~isDeclarationOutputFile(name)

\* name.endsWith('ts.map'): the token before ".map" ends in the letters "ts".
isTypeScriptMapOutputFile(name) ==
  \E e \in {"ts", "cts", "mts"} : endsWith(name, <<e, ".", "map">>)

\* Array.prototype.find: the first of the elements that satisfy the test (hits,
\* in the order of the array), or undefined.
find(hits) == IF hits = <<>> THEN NoFile ELSE Head(hits)

\* ------------------------------------------------------------------ configuration
\* What parseTypescriptConfig and the host's build options hand to the plugin.
\* outDir is "none", "inside" or "outside" (relative to the host's output
\* directory); outFile is "none", "out" or "outFile"; parseErrors and preflight
\* are the numbers of messages emitParsedOptionsErrors and preflight report.
Config(sm, decl, dmap, comp, incr, dtsOnly, outFile, outDir, hostMap, parseErrs, pre) ==
  [sourceMap |-> sm, inlineSourceMap |-> FALSE, declaration |-> decl,
   declarationMap |-> dmap, composite |-> comp, incremental |-> incr,
   emitDeclarationOnly |-> dtsOnly, outFile |-> outFile, outDir |-> outDir,
   autoSetSourceMap |-> FALSE, hostSourcemap |-> hostMap, hostOutdir |-> TRUE,
   parseErrors |-> parseErrs, preflight |-> pre]

Plain ==
  Config(FALSE, FALSE, FALSE, FALSE, FALSE, FALSE, "none", "inside", FALSE, 0, 0)
Declarations ==
  Config(FALSE, TRUE, TRUE, FALSE, TRUE, FALSE, "none", "inside", FALSE, 0, 0)
Incremental ==
  Config(TRUE, TRUE, TRUE, FALSE, TRUE, FALSE, "none", "inside", FALSE, 0, 0)
IncrementalOnly ==
  Config(FALSE, FALSE, FALSE, FALSE, TRUE, FALSE, "none", "inside", FALSE, 0, 0)
Composite ==
  Config(FALSE, TRUE, FALSE, TRUE, FALSE, TRUE, "none", "none", FALSE, 0, 0)
HostMap ==
  Config(FALSE, FALSE, FALSE, FALSE, FALSE, FALSE, "none", "inside", TRUE, 0, 0)
OutFile ==
  Config(FALSE, FALSE, FALSE, FALSE, FALSE, FALSE, "outFile", "inside", FALSE, 0, 0)
Outside ==
  Config(FALSE, FALSE, FALSE, FALSE, FALSE, FALSE, "none", "outside", FALSE, 0, 0)
ParseError ==
  Config(FALSE, FALSE, FALSE, FALSE, FALSE, FALSE, "none", "inside", FALSE, 1, 0)
Preflight ==
  Config(FALSE, FALSE, FALSE, FALSE, FALSE, FALSE, "none", "inside", FALSE, 0, 1)

\* part_000 lines 46-50: an external source map is turned into an inline one.
forceInlineSourceMap(o) ==
  IF o.sourceMap
    THEN [o EXCEPT !.sourceMap = FALSE, !.inlineSourceMap = TRUE]
    ELSE o

\* ts.getOutputFileNames: the output names of one input, in the compiler's order.
jsExtension(ext) ==
  CASE ext = "mts" -> "mjs" [] ext = "cts" -> "cjs" [] OTHER -> "js"

dtsExtension(ext) ==
  CASE ext = "mts" -> "mts" [] ext = "cts" -> "cts" [] OTHER -> "ts"

getOutputFileNames(o, id) ==
  LET n == normalizePath(id)
      stem == SubSeq(n, 1, Len(n) - 2)
      js == stem \o <<".", jsExtension(n[Len(n)])>>
      dts == stem \o <<".", "d", ".", dtsExtension(n[Len(n)])>>
      code == IF o.emitDeclarationOnly THEN <<>>
              ELSE <<js>> \o (IF o.sourceMap THEN <<js \o <<".", "map">>>> ELSE <<>>)
      decl == IF o.declaration \/ o.composite
                THEN <<dts>> \o (IF o.declarationMap THEN <<dts \o <<".", "map">>>> ELSE <<>>)
                ELSE <<>>
  IN code \o decl

\* ts.getTsBuildInfoEmitOutputFilePath
BuildInfo == <<"tsconfig", ".", "tsbuildinfo">>
getTsBuildInfoEmitOutputFilePath(o) ==
  IF o.incremental \/ o.composite THEN BuildInfo ELSE NoFile

Range(seq) == {seq[i] : i \in 1..Len(seq)}

\* Every name the compiler can hand to the write hook under options o.
EmitNames(o) ==
  UNION {Range(getOutputFileNames(o, i)) : i \in Included}
    \cup (IF getTsBuildInfoEmitOutputFilePath(o) = NoFile THEN {} ELSE {BuildInfo})

\* Every name the compiler can hand to the write hook when its program also
\* holds files the inclusion filter rejects: it emits the outputs of every
\* source file of its program.
ProgramNames(o) ==
  UNION {Range(getOutputFileNames(o, i)) : i \in Paths}
    \cup (IF getTsBuildInfoEmitOutputFilePath(o) = NoFile THEN {} ELSE {BuildInfo})

\* Every output name of input i under any options.
AllOutputsOf(i) ==
  Range(getOutputFileNames(
    [sourceMap |-> TRUE, emitDeclarationOnly |-> FALSE, declaration |-> TRUE,
     composite |-> FALSE, declarationMap |-> TRUE], i))

\* ------------------------------------------------------------------ state
VARIABLES
  options,      \* parsedOptions.options and the host's build options
  fileNames,    \* parsedOptions.fileNames
  emittedFiles, \* Map<string, string>: the ArtifactStore
  tsCache,      \* the cache directory: name -> [content, fp]
  source,       \* the source text (a version number) of every input on disk
  program,      \* "null", "open" or "closed"
  errors,       \* pending errors (ids)
  warnings,     \* pending warnings (ids)
  state,        \* WatchCoordinator: "Idle" or "Compiling"
  waiters,      \* WatchCoordinator: FIFO of suspended loads
  microtasks,   \* released continuations, run before any other macrotask
  loads,        \* every onLoad call so far
  compiling,    \* the compiler is inside a pass
  written,      \* names onEnd wrote to disk
  hist          \* history: counters and what each write / delivery did

vars == <<options, fileNames, emittedFiles, tsCache, source, program, errors,
          warnings, state, waiters, microtasks, loads, compiling, written, hist>>

\* ------------------------------------------------------------------ options/validate.ts
\* The number of warnings validateSourceMap reports through context.warn.
validateSourceMap(o) ==
  IF (o.sourceMap \/ o.inlineSourceMap) /\ ~o.hostSourcemap /\ ~o.autoSetSourceMap
    THEN 1
    ELSE IF ~(o.sourceMap \/ o.inlineSourceMap) /\ o.hostSourcemap THEN 1 ELSE 0

\* The number of errors validatePaths reports through context.error.
validatePaths(o) ==
  (IF o.outFile # "none" THEN 1 ELSE 0)
  + (IF o.outDir # "none" /\ o.hostOutdir /\ o.outDir = "outside" THEN 1 ELSE 0)
  + (IF (o.declaration \/ o.declarationMap \/ o.composite) /\ o.outDir = "none"
       THEN 1 ELSE 0)

\* ------------------------------------------------------------------ PersistentArtifactCache
Fingerprint(text) == (text * 31 + 7) % 64

\* The input an output name was generated from; NoFile for the build info.
originOf(name) ==
  IF \E i \in Included : name \in AllOutputsOf(i)
    THEN CHOOSE i \in Included : name \in AllOutputsOf(i)
    ELSE NoFile

currentFingerprint(name) ==
  IF originOf(name) = NoFile THEN 0 ELSE Fingerprint(source[originOf(name)])

store(cache, path, content, fp) ==
  [n \in DOMAIN cache \cup {path} |->
     IF n = path THEN [content |-> content, fp |-> fp] ELSE cache[n]]

\* Mutant: the stored fingerprint is not compared.
lookupAny(cache, path, fp) ==
  IF path \in DOMAIN cache THEN cache[path].content ELSE Undefined

lookup(cache, path, fp) ==
  IF path \in DOMAIN cache /\ cache[path].fp = fp
    THEN cache[path].content
    ELSE Undefined

cacheCode(cache, fileName, data) ==
  store(cache, fileName, data, currentFingerprint(fileName))

getCached(cache, fileName) == lookup(cache, fileName, currentFingerprint(fileName))

\* ------------------------------------------------------------------ outputFile.ts (content)
\* Mutant: the cache is asked first, the ArtifactStore only on a miss.
getEmittedFileCacheFirst(fileName, emitted, cache) ==
  IF fileName # NoFile
    THEN IF getCached(cache, fileName) # Undefined
           THEN getCached(cache, fileName)
           ELSE IF fileName \in DOMAIN emitted THEN emitted[fileName] ELSE Undefined
    ELSE Undefined

getEmittedFile(fileName, emitted, cache) ==
  IF fileName # NoFile
    THEN IF fileName \in DOMAIN emitted
           THEN emitted[fileName]
           ELSE getCached(cache, fileName)
    ELSE Undefined

\* The classification of findTypescriptOutput: the code file, the map file and
\* the declarations among the output names of one input.
classify(emittedFileNames) ==
  LET codeFile == find(SelectSeq(emittedFileNames, isCodeOutputFile))
      mapFile == find(SelectSeq(emittedFileNames, isMapOutputFile))
      other(name) == name # codeFile /\ name # mapFile
  IN [codeFile |-> codeFile, mapFile |-> mapFile,
      declarations |-> SelectSeq(emittedFileNames, other)]

findTypescriptOutput(o, id, emitted, cache) ==
  LET c == classify(getOutputFileNames(o, id))
  IN [code |-> getEmittedFile(c.codeFile, emitted, cache),
      map |-> getEmittedFile(c.mapFile, emitted, cache),
      declarations |-> c.declarations]

\* ------------------------------------------------------------------ WatchCoordinator
\* A coordinator value is [state, waiters, released]: released are the callers
\* the operation let go, in the order they resume.
Coordinator == [state |-> state, waiters |-> waiters, released |-> <<>>]

\* Mutant: waking the compiler leaves the coordinator as it is.
watchUnmarked(c) == c

watch(c) == [c EXCEPT !.state = "Compiling"]

\* Mutant: the settled status releases the first waiter only.
handleStatusReleaseFirst(c, status) ==
  CASE status \in {"Starting", "FileChange"} -> [c EXCEPT !.state = "Compiling"]
    [] status = "Settled" ->
         [state |-> "Idle",
          waiters |-> IF c.waiters = <<>> THEN <<>> ELSE Tail(c.waiters),
          released |-> IF c.waiters = <<>> THEN <<>> ELSE <<Head(c.waiters)>>]
    [] OTHER -> c

handleStatus(c, status) ==
  CASE status \in {"Starting", "FileChange"} -> [c EXCEPT !.state = "Compiling"]
    [] status = "Settled" ->
         [state |-> "Idle", waiters |-> <<>>, released |-> c.waiters]
    [] OTHER -> c

wait(c, caller) ==
  IF c.state = "Idle"
    THEN [c EXCEPT !.released = <<caller>>]
    ELSE [c EXCEPT !.waiters = Append(@, caller)]

\* ------------------------------------------------------------------ plugin closure
NoResult == [present |-> FALSE, contents |-> Undefined, errors |-> <<>>, warnings |-> <<>>]

EmptyMap == [n \in {} |-> Undefined]

\* Map.prototype.set
set(map, key, value) ==
  [n \in DOMAIN map \cup {key} |-> IF n = key THEN value ELSE map[n]]

\* The ids of k messages reported from id `from` on.
ids(from, k) == [i \in 1..k |-> from + i - 1]

\* The code output of PA, as a previous process has cached it when the text of
\* PA was text.
CachedName == <<"d", "/", "a", ".", "js">>
Cached(text) == store(EmptyMap, CachedName, "v1", Fingerprint(text))

\* What the plugin is constructed with: the parsed configuration, the input
\* files the configuration names, and the cache directory a previous process left.
Scenarios ==
  { [config |-> Plain, files |-> <<>>, cache |-> EmptyMap],
    [config |-> Incremental, files |-> <<PA, PX>>, cache |-> Cached(0)],
    [config |-> Declarations, files |-> <<PA, PX>>, cache |-> Cached(0)],
    [config |-> Composite, files |-> <<PA>>, cache |-> EmptyMap],
    [config |-> HostMap, files |-> <<>>, cache |-> Cached(1)],
    [config |-> OutFile, files |-> <<PA>>, cache |-> EmptyMap],
    [config |-> Outside, files |-> <<PA>>, cache |-> EmptyMap],
    [config |-> ParseError, files |-> <<PA>>, cache |-> EmptyMap],
    [config |-> Preflight, files |-> <<PA>>, cache |-> EmptyMap] }

InitOf(scenarios) ==
  /\ \E s \in scenarios :
       /\ options = forceInlineSourceMap(s.config)
       /\ fileNames = SelectSeq(s.files, filter)
       /\ tsCache = s.cache
  /\ emittedFiles = EmptyMap
  /\ source = [i \in Included |-> 0]
  /\ program = "null"
  /\ errors = <<>>
  /\ warnings = <<>>
  /\ state = "Idle"
  /\ waiters = <<>>
  /\ microtasks = <<>>
  /\ loads = <<>>
  /\ compiling = FALSE
  /\ written = {}
  /\ hist = [created |-> 0, pass |-> 0, emits |-> 0,
             nextDiag |-> 0, delivered |-> <<>>,
             emittedPass |-> EmptyMap,
             stored |-> [n \in DOMAIN tsCache |->
                           [content |-> tsCache[n].content, fp |-> tsCache[n].fp,
                            text |-> CHOOSE t \in Texts : Fingerprint(t) = tsCache[n].fp]]]

Init == InitOf(Scenarios)

\* Mutant: a released continuation is scheduled like any other task, so host
\* hooks and compiler callbacks can run before it.
ContinuationIsMacrotask == TRUE

\* Every continuation released by the coordinator has run: the event loop takes
\* the next macrotask (a host hook call or a compiler callback) only then.
MicrotasksDrained == microtasks = <<>>

\* The number of the coordinator's Compiling period after it moves to c.
passAfter(c) ==
  IF state = "Idle" /\ c.state = "Compiling" THEN hist.pass + 1 ELSE hist.pass

\* Mutant: the test of the program variable is lost.
noProgramAlways(p) == TRUE

\* if (!program)
noProgram(p) == p = "null"

\* build.onStart
OnStart ==
  LET n == hist.nextDiag
      pe == options.parseErrors
      pf == options.preflight
      vs == validateSourceMap(options)
      vp == validatePaths(options)
      c == IF noProgram(program)
             THEN handleStatus(Coordinator, "Starting")
             ELSE watch(Coordinator)
  IN /\ MicrotasksDrained
     /\ program # "closed"
     /\ n + pe + pf + vs + vp <= MaxDiags
     /\ hist.pass < MaxPasses \/ state = "Compiling"
     /\ errors' = errors \o ids(n, pe) \o ids(n + pe + pf + vs, vp)
     /\ warnings' = warnings \o ids(n + pe, pf) \o ids(n + pe + pf, vs)
     /\ program' = "open"
     /\ compiling' = IF noProgram(program) THEN TRUE ELSE compiling
     /\ state' = c.state
     /\ waiters' = c.waiters
     /\ microtasks' = microtasks \o c.released
     /\ hist' = [hist EXCEPT !.created = IF noProgram(program) THEN @ + 1 ELSE @,
                             !.pass = passAfter(c),
                             !.nextDiag = n + pe + pf + vs + vp]
     /\ UNCHANGED <<options, fileNames, emittedFiles, tsCache, source, loads, written>>

\* Mutant: closing the compiler lets the suspended loads go.
OnDisposeReleasing ==
  /\ MicrotasksDrained
  /\ program = "open"
  /\ program' = "closed"
  /\ state' = "Idle"
  /\ waiters' = <<>>
  /\ microtasks' = microtasks \o waiters
  /\ UNCHANGED <<options, fileNames, emittedFiles, tsCache, source, errors, warnings,
                 loads, compiling, written, hist>>

\* build.onDispose
OnDispose ==
  /\ MicrotasksDrained
  /\ program = "open"
  /\ program' = "closed"
  /\ UNCHANGED <<options, fileNames, emittedFiles, tsCache, source, errors, warnings,
                 state, waiters, microtasks, loads, compiling, written, hist>>

\* A new onLoad call record.
Call(path, passed) ==
  [path |-> path, passed |-> passed, done |-> ~passed, beganState |-> state,
   beganPass |-> hist.pass, resState |-> "none", resPass |-> 0, resEmits |-> 0,
   codePass |-> 0, result |-> NoResult]

\* Mutant: the load does not wait for the coordinator.
OnLoadNoWait(path) ==
  /\ MicrotasksDrained
  /\ program = "open"
  /\ Len(loads) < MaxLoads
  /\ IF ~filter(path)
       THEN /\ loads' = Append(loads, Call(path, FALSE))
            /\ UNCHANGED microtasks
       ELSE /\ loads' = Append(loads, Call(path, TRUE))
            /\ microtasks' = Append(microtasks, Len(loads) + 1)
  /\ UNCHANGED <<options, fileNames, emittedFiles, tsCache, source, program, errors,
                 warnings, state, waiters, compiling, written, hist>>

\* Mutant: the load waits for the coordinator before it tests the filter.
OnLoadWaitFirst(path) ==
  LET l == Len(loads) + 1
      c == wait(Coordinator, l)
  IN /\ MicrotasksDrained
     /\ program = "open"
     /\ Len(loads) < MaxLoads
     /\ loads' = Append(loads, Call(path, filter(path)))
     /\ waiters' = c.waiters
     /\ microtasks' = microtasks \o c.released
     /\ UNCHANGED <<options, fileNames, emittedFiles, tsCache, source, program, errors,
                    warnings, state, compiling, written, hist>>

\* build.onLoad, up to the await: the filter test and watchProgramHelper.wait()
OnLoad(path) ==
  LET l == Len(loads) + 1
      c == wait(Coordinator, l)
  IN /\ MicrotasksDrained
     /\ program = "open"
     /\ Len(loads) < MaxLoads
     /\ IF ~filter(path)
          THEN /\ loads' = Append(loads, Call(path, FALSE))
               /\ UNCHANGED <<waiters, microtasks>>
          ELSE /\ loads' = Append(loads, Call(path, TRUE))
               /\ waiters' = c.waiters
               /\ microtasks' = microtasks \o c.released
     /\ UNCHANGED <<options, fileNames, emittedFiles, tsCache, source, program, errors,
                    warnings, state, compiling, written, hist>>

\* Mutant: the includes test is lost.
discoverAlways(names, fileName) == Append(names, fileName)

\* if (!parsedOptions.fileNames.includes(fileName)) parsedOptions.fileNames.push(fileName)
discover(names, fileName) ==
  IF ~includes(names, fileName) THEN Append(names, fileName) ELSE names

\* Mutant: the code is tested for truthiness, so an empty output is no result.
loadResultTruthy(output, errs, warns) ==
  IF output.code # Undefined /\ output.code # ""
    THEN [present |-> TRUE, contents |-> output.code, errors |-> errs, warnings |-> warns]
    ELSE NoResult

\* output.code != null ? {contents, errors, warnings} : undefined
loadResult(output, errs, warns) ==
  IF output.code # Undefined
    THEN [present |-> TRUE, contents |-> output.code, errors |-> errs, warnings |-> warns]
    ELSE NoResult

\* The name of the code output of an input (NoFile when it has none).
codeFileOf(path) == find(SelectSeq(getOutputFileNames(options, path), isCodeOutputFile))

\* Mutant: a load takes the code it returns out of the ArtifactStore.
LoadResumeConsuming ==
  /\ microtasks # <<>>
  /\ LET l == Head(microtasks)
         path == loads[l].path
         output == findTypescriptOutput(options, path, emittedFiles, tsCache)
         result == loadResult(output, errors, warnings)
         codeFile == codeFileOf(path)
     IN /\ fileNames' = discover(fileNames, normalizePath(path))
        /\ errors' = <<>>
        /\ warnings' = <<>>
        /\ microtasks' = Tail(microtasks)
        /\ emittedFiles' = [n \in DOMAIN emittedFiles \ {codeFile} |-> emittedFiles[n]]
        /\ loads' = [loads EXCEPT ![l] =
                       [@ EXCEPT !.done = TRUE, !.result = result, !.resState = state,
                                 !.resPass = hist.pass, !.resEmits = hist.emits,
                                 !.codePass = IF codeFile \in DOMAIN hist.emittedPass
                                                THEN hist.emittedPass[codeFile] ELSE 0]]
        /\ hist' = [hist EXCEPT !.delivered =
                      @ \o result.errors \o result.warnings]
  /\ UNCHANGED <<options, tsCache, source, program, state, waiters, compiling, written>>

\* Mutant: a load that returns no result leaves the pending queues as they are.
LoadResumeKeeping ==
  /\ microtasks # <<>>
  /\ LET l == Head(microtasks)
         path == loads[l].path
         output == findTypescriptOutput(options, path, emittedFiles, tsCache)
         result == loadResult(output, errors, warnings)
         codeFile == codeFileOf(path)
     IN /\ fileNames' = discover(fileNames, normalizePath(path))
        /\ errors' = IF result.present THEN <<>> ELSE errors
        /\ warnings' = IF result.present THEN <<>> ELSE warnings
        /\ microtasks' = Tail(microtasks)
        /\ loads' = [loads EXCEPT ![l] =
                       [@ EXCEPT !.done = TRUE, !.result = result, !.resState = state,
                                 !.resPass = hist.pass, !.resEmits = hist.emits,
                                 !.codePass = IF codeFile \in DOMAIN hist.emittedPass
                                                THEN hist.emittedPass[codeFile] ELSE 0]]
        /\ hist' = [hist EXCEPT !.delivered =
                      @ \o result.errors \o result.warnings]
  /\ UNCHANGED <<options, emittedFiles, tsCache, source, program, state, waiters,
                 compiling, written>>

\* build.onLoad, after the await: lines 121-136, run as one microtask
LoadResume ==
  /\ microtasks # <<>>
  /\ LET l == Head(microtasks)
         path == loads[l].path
         fileName == normalizePath(path)
         output == findTypescriptOutput(options, path, emittedFiles, tsCache)
         result == loadResult(output, errors, warnings)
         codeFile == codeFileOf(path)
     IN /\ fileNames' = discover(fileNames, fileName)
        /\ errors' = <<>>
        /\ warnings' = <<>>
        /\ microtasks' = Tail(microtasks)
        /\ loads' = [loads EXCEPT ![l] =
                       [@ EXCEPT !.done = TRUE, !.result = result, !.resState = state,
                                 !.resPass = hist.pass, !.resEmits = hist.emits,
                                 !.codePass = IF codeFile \in DOMAIN hist.emittedPass
                                                THEN hist.emittedPass[codeFile] ELSE 0]]
        /\ hist' = [hist EXCEPT !.delivered =
                      @ \o result.errors \o result.warnings]
  /\ UNCHANGED <<options, emittedFiles, tsCache, source, program, state, waiters,
                 compiling, written>>

\* ------------------------------------------------------------------ the watch compiler
\* The status callback: watchProgramHelper.handleStatus(diagnostic)
status(diagnostic) ==
  LET c == handleStatus(Coordinator, diagnostic)
  IN /\ state' = c.state
     /\ waiters' = c.waiters
     /\ microtasks' = microtasks \o c.released
     /\ hist' = [hist EXCEPT !.pass = passAfter(c)]

\* The compiler detects a change and starts a pass.
CompilerFileChange ==
  /\ MicrotasksDrained
  /\ program = "open"
  /\ ~compiling
  /\ hist.pass < MaxPasses \/ state = "Compiling"
  /\ compiling' = TRUE
  /\ status("FileChange")
  /\ UNCHANGED <<options, fileNames, emittedFiles, tsCache, source, program, errors,
                 warnings, loads, written>>

\* Mutant: an output that is cached already is not cached again.
writeFileCacheOnce(o, cache, fileName, data) ==
  IF (o.composite \/ o.incremental) /\ fileName \notin DOMAIN cache
    THEN cacheCode(cache, fileName, data)
    ELSE cache

\* Mutant: the write hook caches whatever the options are.
writeFileCacheAlways(o, cache, fileName, data) == cacheCode(cache, fileName, data)

\* The cache directory after the write hook ran (lines 94-96).
writeFileCache(o, cache, fileName, data) ==
  IF o.composite \/ o.incremental THEN cacheCode(cache, fileName, data) ELSE cache

\* The write hook: writeFile(fileName, data)
writeFile(fileName, data) ==
  /\ tsCache' = writeFileCache(options, tsCache, fileName, data)
  /\ emittedFiles' = set(emittedFiles, fileName, data)

\* The compiler emits one output of the pass.
CompilerEmit(fileName, data) ==
  /\ MicrotasksDrained
  /\ program = "open"
  /\ compiling
  /\ hist.emits < MaxEmits
  /\ writeFile(fileName, data)
  /\ hist' = [hist EXCEPT
       !.emits = @ + 1,
       !.emittedPass = set(@, fileName, hist.pass),
       !.stored = IF options.composite \/ options.incremental
                    THEN set(@, fileName,
                             [content |-> data, fp |-> currentFingerprint(fileName),
                              text |-> IF originOf(fileName) = NoFile
                                         THEN 0 ELSE source[originOf(fileName)]])
                    ELSE @]
  /\ UNCHANGED <<options, fileNames, source, program, errors, warnings, state, waiters,
                 microtasks, loads, compiling, written>>

\* The compiler reports a diagnostic of the pass: context.error / context.warn
CompilerDiagnostic(kind) ==
  /\ MicrotasksDrained
  /\ program = "open"
  /\ compiling
  /\ hist.nextDiag < MaxDiags
  /\ errors' = IF kind = "error" THEN Append(errors, hist.nextDiag) ELSE errors
  /\ warnings' = IF kind = "warning" THEN Append(warnings, hist.nextDiag) ELSE warnings
  /\ hist' = [hist EXCEPT !.nextDiag = @ + 1]
  /\ UNCHANGED <<options, fileNames, emittedFiles, tsCache, source, program, state,
                 waiters, microtasks, loads, compiling, written>>

\* The compiler ends the pass: "Found N errors. Watching for file changes."
CompilerSettled ==
  /\ MicrotasksDrained
  /\ program = "open"
  /\ compiling
  /\ compiling' = FALSE
  /\ status("Settled")
  /\ UNCHANGED <<options, fileNames, emittedFiles, tsCache, source, program, errors,
                 warnings, loads, written>>

\* The compiler reports a status the coordinator does not recognise.
CompilerOther ==
  /\ MicrotasksDrained
  /\ program = "open"
  /\ status("Other")
  /\ UNCHANGED <<options, fileNames, emittedFiles, tsCache, source, program, errors,
                 warnings, loads, compiling, written>>

\* The user edits an input file.  The plugin reads an input's text only when it
\* looks an output of that input up in the cache, which it does only for outputs
\* the ArtifactStore does not hold: only edits of inputs with such an output are
\* steps.
SourceChange(input, text) ==
  /\ MicrotasksDrained
  /\ \E name \in DOMAIN tsCache \ DOMAIN emittedFiles : originOf(name) = input
  /\ source[input] # text
  /\ source' = [source EXCEPT ![input] = text]
  /\ UNCHANGED <<options, fileNames, emittedFiles, tsCache, program, errors, warnings,
                 state, waiters, microtasks, loads, compiling, written, hist>>

\* ------------------------------------------------------------------ build.onEnd
\* fileName.replace(/\.d\.ts$/, '.ts')
replaceDts(fileName) ==
  IF endsWith(fileName, <<".", "d", ".", "ts">>)
    THEN SubSeq(fileName, 1, Len(fileName) - 4) \o <<".", "ts">>
    ELSE fileName

declarationAndTypeScriptMapFiles(emitted) ==
  {fileName \in DOMAIN emitted :
     \/ isDeclarationOutputFile(fileName) /\ filter(replaceDts(fileName))
     \/ isTypeScriptMapOutputFile(fileName)}

\* !code
falsy(code) == code = Undefined \/ code = ""

OnEnd ==
  LET tsBuildInfoPath == getTsBuildInfoEmitOutputFilePath(options)
      declarations ==
        {id \in declarationAndTypeScriptMapFiles(emittedFiles) :
           /\ ~falsy(getEmittedFile(id, emittedFiles, tsCache))
           /\ options.declaration
           /\ options.hostOutdir}
      buildInfo ==
        IF /\ tsBuildInfoPath # NoFile
           /\ tsBuildInfoPath \in DOMAIN emittedFiles
           /\ ~falsy(emittedFiles[tsBuildInfoPath])
          THEN {tsBuildInfoPath} ELSE {}
  IN /\ MicrotasksDrained
     /\ program = "open"
     /\ written' = written \cup declarations \cup buildInfo
     /\ UNCHANGED <<options, fileNames, emittedFiles, tsCache, source, program, errors,
                    warnings, state, waiters, microtasks, loads, compiling, hist>>

Next ==
  \/ OnStart
  \/ OnDispose
  \/ \E path \in Paths : OnLoad(path)
  \/ LoadResume
  \/ CompilerFileChange
  \/ \E fileName \in ProgramNames(options), data \in Contents : CompilerEmit(fileName, data)
  \/ \E kind \in {"error", "warning"} : CompilerDiagnostic(kind)
  \/ CompilerSettled
  \/ CompilerOther
  \/ \E input \in Included, text \in Texts : SourceChange(input, text)
  \/ OnEnd

Spec == Init /\ [][Next]_vars

\* ------------------------------------------------------------------ focused specifications
\* The two tiers of the artifact cache: loads, emits and edits of the sources.
CacheScenarios ==
  { [config |-> IncrementalOnly, files |-> <<PA, PX>>, cache |-> Cached(0)] }

InitCache == InitOf(CacheScenarios)

NextCache ==
  \/ OnStart
  \/ \E path \in Included : OnLoad(path)
  \/ LoadResume
  \/ CompilerFileChange
  \/ \E fileName \in EmitNames(options), data \in Contents : CompilerEmit(fileName, data)
  \/ CompilerSettled
  \/ \E input \in Included, text \in Texts : SourceChange(input, text)

SpecCache == InitCache /\ [][NextCache]_vars

\* The load path alone: the host hooks, the coordinator and the compiler's passes.
LoadScenarios ==
  { [config |-> Plain, files |-> <<PA, PX>>, cache |-> EmptyMap] }

InitLoad == InitOf(LoadScenarios)

NextLoad ==
  \/ OnStart
  \/ \E path \in Paths : OnLoad(path)
  \/ LoadResume
  \/ CompilerFileChange
  \/ \E fileName \in EmitNames(options), data \in Contents : CompilerEmit(fileName, data)
  \/ CompilerSettled
  \/ CompilerOther

SpecLoad == InitLoad /\ [][NextLoad]_vars

\* The two stores and the resolution of outputs: declarations and their maps are
\* emitted, cached and loaded.
StoreScenarios ==
  { [config |-> Declarations, files |-> <<PA, PX>>, cache |-> Cached(0)],
    [config |-> Plain, files |-> <<PA>>, cache |-> Cached(1)] }

InitStore == InitOf(StoreScenarios)

NextStore ==
  \/ OnStart
  \/ OnLoad(PA)
  \/ LoadResume
  \/ CompilerFileChange
  \/ \E fileName \in Range(getOutputFileNames(options, PA)), data \in Contents :
       CompilerEmit(fileName, data)
  \/ CompilerSettled
  \/ \E text \in Texts : SourceChange(PA, text)

SpecStore == InitStore /\ [][NextStore]_vars

\* The host hooks with a compiler that reports diagnostics: loads, accepted and
\* rejected, the pending queues, and the end of the session.
HostScenarios ==
  { [config |-> Plain, files |-> <<PA, PX>>, cache |-> EmptyMap] }

InitHost == InitOf(HostScenarios)

NextHost ==
  \/ OnStart
  \/ OnDispose
  \/ \E path \in {PA, PX} : OnLoad(path)
  \/ LoadResume
  \/ CompilerFileChange
  \/ \E fileName \in Range(getOutputFileNames(options, PA)), data \in Contents :
       CompilerEmit(fileName, data)
  \/ \E kind \in {"error", "warning"} : CompilerDiagnostic(kind)
  \/ CompilerSettled

SpecHost == InitHost /\ [][NextHost]_vars

\* ------------------------------------------------------------------ claims
Calls == 1..Len(loads)
Resolved(l) == loads[l].passed /\ loads[l].done
Waited(l) == loads[l].passed /\ loads[l].beganState = "Compiling"

\* C1: no onLoad call that passed the inclusion filter resolves while the
\* coordinator is Compiling: every such call returns in a state where it is Idle.
C1_ResolveOnlyWhenIdle ==
  \A l \in Calls : Resolved(l) => loads[l].resState = "Idle"

\* A call that began while Compiling has resolved.
C1_Witness ==
  \E l \in Calls : Resolved(l) /\ Waited(l) /\ loads[l].resState = "Idle"

\* C2: the content a load that began while Compiling resolves to was written
\* in the Compiling period it began in or in an earlier one, never in a period
\* that started after the load began.
C2_NoContentOfLaterPass ==
  \A l \in Calls :
    Resolved(l) /\ Waited(l) /\ loads[l].result.present
      => loads[l].codePass <= loads[l].beganPass

\* A load that began while Compiling resolved to content written in that period.
C2_Witness ==
  \E l \in Calls :
    /\ Resolved(l) /\ Waited(l) /\ loads[l].result.present
    /\ loads[l].codePass = loads[l].beganPass

\* Two calls for different files that began in the same Compiling period.
Concurrent(i, j) ==
  /\ i # j
  /\ Waited(i) /\ Waited(j)
  /\ loads[i].beganPass = loads[j].beganPass
  /\ normalizePath(loads[i].path) # normalizePath(loads[j].path)

Pending(l) == \E k \in 1..Len(waiters) : waiters[k] = l
Released(l) == \E k \in 1..Len(microtasks) : microtasks[k] = l

\* C3: two concurrent loads for different files that began while Compiling
\* both suspend, are released by the same Idle transition, and resolve with no
\* write-hook emit between their two reads.
C3_ConcurrentLoadsOneGeneration ==
  \A i, j \in Calls :
    Concurrent(i, j) =>
      /\ ~loads[i].done => Pending(i) \/ Released(i)
      /\ Pending(i) <=> Pending(j)
      /\ loads[i].done /\ loads[j].done =>
           /\ loads[i].resPass = loads[j].resPass
           /\ loads[i].resPass = loads[i].beganPass
           /\ loads[i].resEmits = loads[j].resEmits

\* Two concurrent loads have resolved, one of them to content of the period both
\* waited in.
C3_Witness ==
  \E i, j \in Calls :
    /\ Concurrent(i, j)
    /\ loads[i].done /\ loads[j].done
    /\ loads[i].result.present
    /\ loads[i].codePass = loads[i].beganPass

\* C5: the watch compiler is constructed at most once: the first onStart
\* constructs it and every later onStart wakes the existing instance.
C5_ConstructedAtMostOnce ==
  /\ hist.created <= 1
  /\ hist.created = (IF program = "null" THEN 0 ELSE 1)

\* An onStart has found the compiler and woken it: the coordinator is Compiling
\* although the compiler is in no pass.
C5_Witness == hist.created = 1 /\ state = "Compiling" /\ ~compiling

NoDuplicates(seq) == \A i, j \in 1..Len(seq) : i # j => seq[i] # seq[j]

\* C6: the input file list never shrinks and never gains a duplicate through
\* onLoad: a resuming load appends its normalized path exactly when the path is
\* absent, and leaves the list unchanged otherwise.
C6_FileNamesAppendOnce ==
  [][/\ Len(fileNames') >= Len(fileNames)
     /\ SubSeq(fileNames', 1, Len(fileNames)) = fileNames
     /\ NoDuplicates(fileNames')
     /\ microtasks # <<>> /\ microtasks' = Tail(microtasks) =>
          LET fileName == normalizePath(loads[Head(microtasks)].path)
          IN fileNames' = IF includes(fileNames, fileName)
                            THEN fileNames
                            ELSE Append(fileNames, fileName)
     /\ fileNames' # fileNames =>
          microtasks # <<>> /\ microtasks' = Tail(microtasks)]_vars

\* The same file, given with a backslash, was loaded twice and is listed once.
C6_Witness ==
  \E i, j \in Calls :
    /\ i # j /\ Resolved(i) /\ Resolved(j)
    /\ loads[i].path = PB /\ loads[j].path = PB
    /\ Len(SelectSeq(fileNames, LAMBDA n : n = normalizePath(PB))) = 1

\* The number of times id occurs in seq.
Count(seq, id) == Cardinality({i \in 1..Len(seq) : seq[i] = id})

\* C4: every diagnostic pushed through context.error / context.warn is
\* delivered in the result of exactly one onLoad call: it is either still
\* pending or has been returned once, never discarded and never returned twice.
C4_DiagnosticsDeliveredExactlyOnce ==
  \A d \in 0..(hist.nextDiag - 1) :
    Count(errors \o warnings, d) + Count(hist.delivered, d) = 1

\* A name of the list that is the source map of a declaration of the list.
isDeclarationMap(name, names) ==
  \E d \in Range(names) : isDeclarationOutputFile(d) /\ name = d \o <<".", "map">>

\* C7: of the output names of a loaded input, every name with a declaration
\* suffix and every declaration map is placed in declarations, and no
\* declaration map is chosen as the primary map.
C7_DeclarationMapIsDeclaration ==
  \A l \in Calls :
    Resolved(l) =>
      LET names == getOutputFileNames(options, loads[l].path)
          c == classify(names)
      IN \A n \in Range(names) :
           isDeclarationOutputFile(n) \/ isDeclarationMap(n, names) =>
             n # c.mapFile /\ includes(c.declarations, n)

\* The load at the head of the microtask queue resumes in this step.
Resumes == microtasks # <<>> /\ microtasks' = Tail(microtasks)

\* The code slot of path is present in the ArtifactStore or, with the
\* fingerprint of the current source, in the PersistentArtifactCache.
CodeSlotPresent(path) ==
  LET codeFile == codeFileOf(path)
  IN /\ codeFile # NoFile
     /\ \/ codeFile \in DOMAIN emittedFiles
        \/ /\ codeFile \in DOMAIN tsCache
           /\ tsCache[codeFile].fp = currentFingerprint(codeFile)

\* C8: a resuming load returns a result, with the content of the code slot and
\* the pending diagnostics, exactly when the code slot of its path is present in
\* the ArtifactStore or the PersistentArtifactCache, and no result otherwise.
C8_ResultIffCodePresent ==
  [][Resumes =>
       LET l == Head(microtasks)
           codeFile == codeFileOf(loads[l].path)
           r == loads'[l].result
       IN /\ loads'[l].done
          /\ r.present <=> CodeSlotPresent(loads[l].path)
          /\ r.present =>
               /\ r.contents = IF codeFile \in DOMAIN emittedFiles
                                 THEN emittedFiles[codeFile]
                                 ELSE tsCache[codeFile].content
               /\ r.errors = errors
               /\ r.warnings = warnings
          /\ ~r.present => r = NoResult]_vars

\* One load returned an empty content, another returned no result.
C8_Witness ==
  \E i, j \in Calls :
    /\ Resolved(i) /\ loads[i].result.present /\ loads[i].result.contents = ""
    /\ Resolved(j) /\ ~loads[j].result.present

\* C9: content taken from the PersistentArtifactCache is returned only when the
\* fingerprint stored with the entry equals the fingerprint of the current
\* source, which is then the text the entry was stored for; an entry stored for
\* another text is a miss and the load returns no result.
C9_CacheTrustedOnlyOnFingerprintMatch ==
  [][Resumes =>
       LET l == Head(microtasks)
           codeFile == codeFileOf(loads[l].path)
           r == loads'[l].result
       IN codeFile \in DOMAIN hist.stored /\ codeFile \notin DOMAIN emittedFiles =>
            LET e == hist.stored[codeFile]
                current == source[originOf(codeFile)]
            IN /\ r.present =>
                    /\ e.fp = Fingerprint(current)
                    /\ e.text = current
                    /\ r.contents = e.content
               /\ e.text # current => ~r.present]_vars

\* A load returned the content the cache holds for an output never emitted in
\* this process.
C9_Witness ==
  \E l \in Calls :
    /\ Resolved(l) /\ loads[l].result.present
    /\ codeFileOf(loads[l].path) \notin DOMAIN emittedFiles
    /\ codeFileOf(loads[l].path) \in DOMAIN tsCache

\* The fingerprints a lookup can be made with.
Fingerprints == {Fingerprint(t) : t \in Texts} \cup {0}

\* C10: after store(P, C, fp), and with no later store to P, lookup(P, fp)
\* returns C and lookup(P, fp2) with any other fingerprint returns absent.
C10_CacheRoundTrip ==
  \A P \in DOMAIN hist.stored :
    LET C == hist.stored[P].content
        fp == hist.stored[P].fp
    IN /\ lookup(tsCache, P, fp) = C
       /\ \A fp2 \in Fingerprints \ {fp} : lookup(tsCache, P, fp2) = Undefined

\* The write hook has stored an output over the entry a previous process left.
C10_Witness ==
  /\ CachedName \in DOMAIN hist.emittedPass
  /\ CachedName \in DOMAIN tsCache
  /\ tsCache[CachedName].content = ""

\* resolve(inputPath): the output description of an input in the current state.
Resolve(path) == findTypescriptOutput(options, path, emittedFiles, tsCache)

\* C11: a step that is neither a write-hook emit nor a change of a source leaves
\* the code, map and declarations resolve returns for every input unchanged, and
\* a resuming load returns as contents the code resolve returns: two resolves
\* separated only by such steps return identical output.
C11_ResolveIdempotent ==
  [][/\ hist.emits' = hist.emits /\ source' = source =>
          \A path \in Paths :
            findTypescriptOutput(options', path, emittedFiles', tsCache') = Resolve(path)
     /\ Resumes =>
          LET l == Head(microtasks)
          IN loads'[l].result.present =>
               loads'[l].result.contents = Resolve(loads[l].path).code]_vars

\* Two loads of the same input, with no emit between them, returned the same
\* content, and the map slot of the input is present.
C11_Witness ==
  \E i, j \in Calls :
    /\ i < j /\ Resolved(i) /\ Resolved(j)
    /\ loads[i].path = loads[j].path
    /\ loads[i].result.present /\ loads[j].result.present
    /\ loads[i].resEmits = loads[j].resEmits
    /\ loads[i].result.contents = loads[j].result.contents
    /\ Resolve(loads[i].path).map # Undefined

\* The inputs an output name can have been generated from.
OriginatingInputs(name) == {p \in Paths : name \in AllOutputsOf(p)}

\* C12: every output path the end-of-build enumeration selects (declarations
\* and declaration / compiler-internal source maps) has an originating input
\* that passes the inclusion filter.
C12_SelectedOutputsPassFilter ==
  \A fileName \in declarationAndTypeScriptMapFiles(emittedFiles) :
    /\ OriginatingInputs(fileName) # {}
    /\ \A p \in OriginatingInputs(fileName) : filter(p)

\* The ids of seq are in the order in which the calls began.
InCallOrder(seq) == \A i, j \in 1..Len(seq) : i < j => seq[i] < seq[j]

\* A call that passes the filter begins in this step.
Begins ==
  /\ Len(loads') = Len(loads) + 1
  /\ loads'[Len(loads')].passed

\* C13: wait() lets a caller continue at once when the coordinator is Idle;
\* otherwise the caller stays suspended until the next transition to Idle, which
\* releases every waiting caller, and the callers resume in the order in which
\* they began waiting.
C13_WaitReleasesAllInOrder ==
  [][/\ Begins /\ state = "Idle" =>
          /\ microtasks' = Append(microtasks, Len(loads'))
          /\ waiters' = waiters
     /\ Begins /\ state = "Compiling" =>
          /\ waiters' = Append(waiters, Len(loads'))
          /\ microtasks' = microtasks
     /\ state = "Compiling" /\ state' = "Idle" =>
          /\ waiters' = <<>>
          /\ microtasks' = microtasks \o waiters
     /\ ~(state = "Compiling" /\ state' = "Idle") =>
          /\ Len(waiters') >= Len(waiters)
          /\ SubSeq(waiters', 1, Len(waiters)) = waiters
     /\ state' = "Idle" => waiters' = <<>>
     /\ InCallOrder(waiters') /\ InCallOrder(microtasks')
     /\ Resumes =>
          /\ loads'[Head(microtasks)].done
          /\ \A k \in Range(Tail(microtasks)) : ~loads'[k].done]_vars

\* Two suspended callers have been released together and the one that began
\* waiting first has resumed, the other not yet.
C13_Witness ==
  \E i, j \in Calls :
    /\ i < j /\ Waited(i) /\ Waited(j)
    /\ loads[i].done /\ ~loads[j].done
    /\ microtasks = <<j>>
    /\ state = "Idle"

\* C14: an onStart that finds an existing compiler instance leaves the
\* coordinator Compiling without any status of the compiler, and every accepted
\* load that begins from then on suspends and stays suspended until the settled
\* status of the new pass.
C14_WakeBlocksLoads ==
  /\ [](~noProgram(program) =>
          ~ENABLED (OnStart /\ ~(state' = "Compiling" /\ compiling' = compiling)))
  /\ [][/\ Begins /\ state = "Compiling" /\ ~compiling =>
          /\ waiters' = Append(waiters, Len(loads'))
          /\ ~loads'[Len(loads')].done
     /\ \A l \in Calls :
          Pending(l) /\ ~(\E k \in 1..Len(waiters') : waiters'[k] = l) =>
            /\ compiling /\ ~compiling'
            /\ state' = "Idle"
            /\ microtasks' = microtasks \o waiters]_vars

\* A load issued after a wake is suspended although the compiler has reported
\* no status of a new pass.
C14_Witness ==
  \E l \in Calls :
    /\ Pending(l)
    /\ state = "Compiling" /\ ~compiling
    /\ loads[l].beganPass = hist.pass
    /\ hist.pass > 1

\* C15: the ArtifactStore and the PersistentArtifactCache are written only by
\* the write hook and only while the coordinator is Compiling, and they are read,
\* by a resuming load and by onEnd, only while the coordinator is Idle.
C15_WritesCompilingReadsIdle ==
  [][/\ emittedFiles' # emittedFiles \/ tsCache' # tsCache =>
          /\ state = "Compiling"
          /\ hist.emits' = hist.emits + 1
     /\ Resumes => state = "Idle"
     /\ OnEnd => state = "Idle"]_vars

C17_StoreFirstCacheSecond ==
  \A fileName \in ProgramNames(options) \cup DOMAIN tsCache \cup {NoFile} :
    LET code == getEmittedFile(fileName, emittedFiles, tsCache)
    IN /\ fileName = NoFile => code = Undefined
       /\ fileName # NoFile /\ fileName \in DOMAIN emittedFiles =>
            code = emittedFiles[fileName]
       /\ fileName # NoFile /\ fileName \notin DOMAIN emittedFiles =>
            code = lookup(tsCache, fileName, currentFingerprint(fileName))
       /\ fileName \notin DOMAIN emittedFiles /\ fileName \notin DOMAIN tsCache =>
            code = Undefined

\* The ArtifactStore holds an empty string for a path for which a cache lookup
\* would return a content.
C17_Witness ==
  /\ CachedName \in DOMAIN emittedFiles
  /\ emittedFiles[CachedName] = ""
  /\ getCached(tsCache, CachedName) = "v1"

\* C18: dispose closes the compiler and releases no pending waiter: it changes
\* neither the coordinator, the ArtifactStore, the cache nor the diagnostic
\* queues, and a suspended load leaves the waiters only at a settled status of
\* an open compiler, so a load suspended at dispose stays suspended.
C18_DisposeReleasesNoWaiter ==
  [][/\ program = "open" /\ program' # "open" =>
          /\ program' = "closed"
          /\ state' = state /\ waiters' = waiters /\ microtasks' = microtasks
          /\ loads' = loads
          /\ emittedFiles' = emittedFiles /\ tsCache' = tsCache
          /\ errors' = errors /\ warnings' = warnings
     /\ program = "closed" =>
          program' = "closed" /\ waiters' = waiters /\ state' = state
     /\ \A l \in Calls :
          Pending(l) /\ ~(\E k \in 1..Len(waiters') : waiters'[k] = l) =>
            program = "open" /\ compiling /\ ~compiling']_vars

\* The compiler was closed while a load was suspended and a diagnostic was
\* pending: the load is still suspended and the diagnostic still pending.
C18_Witness ==
  /\ program = "closed"
  /\ state = "Compiling"
  /\ waiters # <<>>
  /\ errors \o warnings # <<>>

\* A call whose path fails the filter begins in this step.
BeginsRejected ==
  /\ Len(loads') = Len(loads) + 1
  /\ ~filter(loads'[Len(loads')].path)

\* C19: an onLoad call whose path fails the inclusion filter returns no result
\* at once, without suspending on the coordinator even when it is Compiling, and
\* leaves the input file list, the ArtifactStore and the pending error and
\* warning queues unchanged.
C19_RejectedLoadIsNoOp ==
  [][BeginsRejected =>
       LET l == Len(loads')
       IN /\ loads'[l].done
          /\ loads'[l].result = NoResult
          /\ waiters' = waiters /\ microtasks' = microtasks /\ state' = state
          /\ fileNames' = fileNames
          /\ emittedFiles' = emittedFiles /\ tsCache' = tsCache
          /\ errors' = errors /\ warnings' = warnings]_vars

\* A rejected call has returned while the coordinator was Compiling and a
\* diagnostic was pending, which still is.
C19_Witness ==
  \E l \in Calls :
    /\ ~loads[l].passed /\ loads[l].done
    /\ loads[l].beganState = "Compiling"
    /\ state = "Compiling"
    /\ errors \o warnings # <<>>
    /\ ~includes(fileNames, normalizePath(loads[l].path))

\* C20: when a filter-accepted onLoad call completes, the pending error queue
\* and the pending warning queue are both empty, with or without a result; of
\* the loads released by the same Idle transition only the first to resume can
\* carry diagnostics.
C20_QueuesEmptyAfterLoad ==
  [][/\ Resumes => errors' = <<>> /\ warnings' = <<>>
     /\ \A i, j \in 1..Len(loads') :
          /\ i < j
          /\ loads'[i].passed /\ loads'[i].beganState = "Compiling"
          /\ loads'[j].passed /\ loads'[j].beganState = "Compiling"
          /\ loads'[i].beganPass = loads'[j].beganPass
          /\ loads'[j].done
          => /\ loads'[i].done
             /\ loads'[j].result.errors = <<>>
             /\ loads'[j].result.warnings = <<>>]_vars

\* Two loads were released together while a diagnostic was pending; the first
\* returned no result and emptied the queues, the second found them empty.
C20_Witness ==
  \E i, j \in Calls :
    /\ i < j /\ Waited(i) /\ Waited(j)
    /\ loads[i].beganPass = loads[j].beganPass
    /\ loads[i].done /\ loads[j].done
    /\ ~loads[i].result.present
    /\ hist.nextDiag > 0 /\ hist.delivered = <<>>
    /\ errors = <<>> /\ warnings = <<>>

====
